---- MODULE Spec2Model ----
(***************************************************************************)
(* Three diagnostic scripts of the repository:                             *)
(*   test_db_query.py     connect, DESCRIBE, two ordering queries, close   *)
(*   test_leaderboard.py  four endpoints probed through a child process    *)
(*   verify_login_fix.py  health check, then two login attempts            *)
(* A behaviour is one run of one script.  Every external call (database,   *)
(* HTTP, child process) is split into a call step and a return step whose  *)
(* outcome is chosen by the environment.                                   *)
(***************************************************************************)
EXTENDS Integers, Sequences, FiniteSets, TLC

VARIABLES
    script,      \* which script this run executes
    pc,          \* position of the interpreter in the script
    out,         \* lines printed so far: records [k |-> loop index or 0, line |-> text]
    calls,       \* external calls issued so far: records [op, res], res = "pending" while in flight
    inflight,    \* outbound operations (statements, requests, child processes) in flight
    idx,         \* loop index of the for loop (endpoint or credential), 1-based
    connBound,   \* db: the local name `connection` is bound
    linkUp,      \* db: what connection.is_connected() returns
    cursorState, \* db: "none", "open" or "closed"
    connClosed,  \* db: connection.close() has been called
    healthy,     \* login: return value of check_backend_status ("unset" before)
    escaped      \* exception that left the script's function, "none" if none

vars == <<script, pc, out, calls, inflight, idx, connBound, linkUp,
          cursorState, connClosed, healthy, escaped>>

Scripts == {"db", "leaderboard", "login"}

Line(k, text) == [k |-> k, line |-> text]

Call(op) == [op |-> op, res |-> "pending"]

\* The last call of cs completed with result r.
Returned(cs, r) == [cs EXCEPT ![Len(cs)].res = r]

Lines(k) == {i \in 1..Len(out) : out[i].k = k}

Printed(text) == \E i \in 1..Len(out) : out[i].line = text

Ops == [i \in 1..Len(calls) |-> calls[i].op]

Issued(op) == \E i \in 1..Len(calls) : calls[i].op = op

ResultOf(op) == IF Issued(op)
                THEN calls[CHOOSE i \in 1..Len(calls) : calls[i].op = op].res
                ELSE "never"

TimesIssued(op) == Cardinality({i \in 1..Len(calls) : calls[i].op = op})

Ended == pc \in {"done", "crashed"}

(***************************************************************************)
(* test_db_query.py                                                        *)
(***************************************************************************)

\* Outcomes of mysql.connector.connect.
ConnectOutcomes == {"connected", "not_connected", "InterfaceError", "RuntimeError"}

\* Outcomes of cursor.execute (with the fetchall that follows it in the same
\* try region).  "OperationalError" is a MySQL Error raised because the
\* connection was lost; on a lost connection nothing else can happen.
StatementOutcomes(up) == IF up THEN {"ok", "ProgrammingError", "OperationalError", "RuntimeError"}
                         ELSE {"OperationalError"}

\* Classes of mysql.connector.Error among the modelled exceptions.
MySQLErrors == {"InterfaceError", "ProgrammingError", "OperationalError"}

\* The except clauses of the outer try: `except Error`, then `except Exception`.
DbOuterHandler(e) == IF e \in MySQLErrors THEN "MySQL error" ELSE "Error"

\* is_connected() after a statement: a lost connection is no longer connected.
LinkAfter(up, o) == up /\ o # "OperationalError"

\* Where control goes after DESCRIBE: an exception leaves the outer try.
AfterDescribe(o) == IF o = "ok" THEN "db_q_correct" ELSE "db_finally"

AfterCorrectAbort(o) == IF o = "ok" THEN "db_q_wrong" ELSE "db_finally"

\* Where control goes after the createdAt query: its own try/except swallows
\* the exception, so the created_at query always follows.
AfterCorrect(o) == "db_q_wrong"

DbConnectCall ==
    /\ script = "db" /\ pc = "db_start"
    /\ calls' = Append(calls, Call("connect"))
    /\ inflight' = inflight \cup {"connect"}
    /\ pc' = "db_connect"
    /\ UNCHANGED <<script, out, idx, connBound, linkUp, cursorState, connClosed, healthy, escaped>>

DbConnectReturn ==
    /\ script = "db" /\ pc = "db_connect"
    /\ \E o \in ConnectOutcomes :
        /\ calls' = Returned(calls, o)
        /\ inflight' = inflight \ {"connect"}
        /\ connBound' = (o \in {"connected", "not_connected"})
        /\ linkUp' = (o = "connected")
        /\ cursorState' = IF o = "connected" THEN "open" ELSE cursorState
        /\ out' = CASE o = "connected" -> out \o <<Line(0, "=== db test ==="), Line(0, "1. table structure")>>
                    [] o = "not_connected" -> out
                    [] OTHER -> Append(out, Line(0, DbOuterHandler(o)))
        /\ pc' = IF o = "connected" THEN "db_describe" ELSE "db_finally"
    /\ UNCHANGED <<script, idx, connClosed, healthy, escaped>>

DbDescribeCall ==
    /\ script = "db" /\ pc = "db_describe"
    /\ calls' = Append(calls, Call("DESCRIBE"))
    /\ inflight' = inflight \cup {"DESCRIBE"}
    /\ pc' = "db_describe_wait"
    /\ UNCHANGED <<script, out, idx, connBound, linkUp, cursorState, connClosed, healthy, escaped>>

DbDescribeReturn ==
    /\ script = "db" /\ pc = "db_describe_wait"
    /\ \E o \in StatementOutcomes(linkUp) :
        /\ calls' = Returned(calls, o)
        /\ inflight' = inflight \ {"DESCRIBE"}
        /\ linkUp' = LinkAfter(linkUp, o)
        /\ out' = IF o = "ok"
                  THEN out \o <<Line(0, "columns"), Line(0, "2. leaderboard query")>>
                  ELSE Append(out, Line(0, DbOuterHandler(o)))
        /\ pc' = AfterDescribe(o)
    /\ UNCHANGED <<script, idx, connBound, cursorState, connClosed, healthy, escaped>>

DbCorrectCall ==
    /\ script = "db" /\ pc = "db_q_correct"
    /\ calls' = Append(calls, Call("createdAt"))
    /\ inflight' = inflight \cup {"createdAt"}
    /\ pc' = "db_q_correct_wait"
    /\ UNCHANGED <<script, out, idx, connBound, linkUp, cursorState, connClosed, healthy, escaped>>

DbCorrectReturn ==
    /\ script = "db" /\ pc = "db_q_correct_wait"
    /\ \E o \in StatementOutcomes(linkUp) :
        /\ calls' = Returned(calls, o)
        /\ inflight' = inflight \ {"createdAt"}
        /\ linkUp' = LinkAfter(linkUp, o)
        /\ out' = IF AfterCorrect(o) = "db_q_wrong"
                  THEN out \o <<Line(0, IF o = "ok" THEN "query ok" ELSE "query failed"),
                                Line(0, "3. wrong column name")>>
                  ELSE Append(out, Line(0, DbOuterHandler(o)))
        /\ pc' = AfterCorrect(o)
    /\ UNCHANGED <<script, idx, connBound, cursorState, connClosed, healthy, escaped>>

DbWrongCall ==
    /\ script = "db" /\ pc = "db_q_wrong"
    /\ calls' = Append(calls, Call("created_at"))
    /\ inflight' = inflight \cup {"created_at"}
    /\ pc' = "db_q_wrong_wait"
    /\ UNCHANGED <<script, out, idx, connBound, linkUp, cursorState, connClosed, healthy, escaped>>

DbWrongReturn ==
    /\ script = "db" /\ pc = "db_q_wrong_wait"
    /\ \E o \in StatementOutcomes(linkUp) :
        /\ calls' = Returned(calls, o)
        /\ inflight' = inflight \ {"created_at"}
        /\ linkUp' = LinkAfter(linkUp, o)
        /\ out' = Append(out, Line(0, IF o = "ok" THEN "should not succeed" ELSE "expected error"))
    /\ pc' = "db_finally"
    /\ UNCHANGED <<script, idx, connBound, cursorState, connClosed, healthy, escaped>>

\* finally: `if connection and connection.is_connected(): cursor.close();
\* connection.close()`.  Reading the unbound local raises UnboundLocalError,
\* which no handler is left to catch.
DbFinally ==
    /\ script = "db" /\ pc = "db_finally"
    /\ IF ~connBound
       THEN /\ escaped' = "UnboundLocalError"
            /\ pc' = "crashed"
            /\ UNCHANGED <<cursorState, connClosed, linkUp>>
       ELSE /\ IF linkUp
               THEN /\ cursorState' = "closed"
                    /\ connClosed' = TRUE
                    /\ linkUp' = FALSE
               ELSE UNCHANGED <<cursorState, connClosed, linkUp>>
            /\ pc' = "done"
            /\ UNCHANGED escaped
    /\ UNCHANGED <<script, out, calls, inflight, idx, connBound, healthy>>

DbNext ==
    \/ DbConnectCall \/ DbConnectReturn
    \/ DbDescribeCall \/ DbDescribeReturn
    \/ DbCorrectCall \/ DbCorrectReturn
    \/ DbWrongCall \/ DbWrongReturn
    \/ DbFinally

(***************************************************************************)
(* test_leaderboard.py                                                     *)
(***************************************************************************)

\* url + params of the endpoints list, in list order.
Endpoints == <<"/api/leaderboard",
               "/api/leaderboard?tournament=SUMMER&limit=5",
               "/api/leaderboard/stats",
               "/api/leaderboard/users/1/rank">>

\* What subprocess.run can do once the child was started: the child exits
\* with output only on stdout ("clean": the PowerShell script printed a
\* success report; "http_error": its catch block printed the HTTP error),
\* exits with text on stderr, or is still running after timeout=10.
RunOutcomes == {"clean", "http_error", "stderr", "timeout"}

\* Exception raised by subprocess.run, "none" if it returns a result.
RunException(o) == CASE o = "missing" -> "FileNotFoundError"
                     [] o = "timeout" -> "TimeoutExpired"
                     [] OTHER -> "none"

\* Lines test_endpoint prints for an outcome of subprocess.run.
EndpointReport(k, o) ==
    IF RunException(o) # "none"
    THEN <<Line(k, "test error")>>
    ELSE <<Line(k, "stdout")>> \o (IF o = "stderr" THEN <<Line(k, "stderr")>> ELSE <<>>)

AfterRunNoKill(alive, k, o) == IF o = "timeout" THEN alive ELSE alive \ {k}

\* Children alive when subprocess.run leaves: run() waits for the child, and
\* on TimeoutExpired kills it and waits before re-raising.
AfterRun(alive, k, o) == alive \ {k}

LoopAbortOnFailure(i, o, n) == IF o = "clean" THEN i + 1 ELSE n + 1

LoopRetryOnce(i, o, n) == IF o = "timeout" /\ TimesIssued(Endpoints[i]) < 2 THEN i ELSE i + 1

\* Index of the for loop after the body ran for element i with outcome o:
\* the body has no break, continue or return, and test_endpoint catches
\* every Exception.
LoopNext(i, o, n) == i + 1

LoopPc(i, n, again) == IF i > n THEN "done" ELSE again

LbStart ==
    /\ script = "leaderboard" /\ pc = "lb_start"
    /\ out' = Append(out, Line(0, "=== leaderboard API test ==="))
    /\ pc' = LoopPc(idx, Len(Endpoints), "lb_loop")
    /\ UNCHANGED <<script, calls, inflight, idx, connBound, linkUp, cursorState, connClosed, healthy, escaped>>

\* The loop body up to subprocess.run: the child is started, or the
\* executable is missing and run raises at once.
LbRunCall ==
    /\ script = "leaderboard" /\ pc = "lb_loop"
    /\ \E spawned \in BOOLEAN :
        IF spawned
        THEN /\ calls' = Append(calls, Call(Endpoints[idx]))
             /\ inflight' = inflight \cup {idx}
             /\ out' = Append(out, Line(idx, "testing"))
             /\ pc' = "lb_run"
             /\ UNCHANGED idx
        ELSE /\ calls' = Append(calls, [op |-> Endpoints[idx], res |-> "missing"])
             /\ out' = Append(out, Line(idx, "testing")) \o EndpointReport(idx, "missing")
             /\ idx' = LoopNext(idx, "missing", Len(Endpoints))
             /\ pc' = LoopPc(idx', Len(Endpoints), "lb_loop")
             /\ UNCHANGED inflight
    /\ UNCHANGED <<script, connBound, linkUp, cursorState, connClosed, healthy, escaped>>

LbRunReturn ==
    /\ script = "leaderboard" /\ pc = "lb_run"
    /\ \E o \in RunOutcomes :
        /\ calls' = Returned(calls, o)
        /\ inflight' = AfterRun(inflight, idx, o)
        /\ out' = out \o EndpointReport(idx, o)
        /\ idx' = LoopNext(idx, o, Len(Endpoints))
        /\ pc' = LoopPc(idx', Len(Endpoints), "lb_loop")
    /\ UNCHANGED <<script, connBound, linkUp, cursorState, connClosed, healthy, escaped>>

LbNext == LbStart \/ LbRunCall \/ LbRunReturn

(***************************************************************************)
(* verify_login_fix.py                                                     *)
(***************************************************************************)

\* usernames of test_users, in list order.
TestUsers == <<"root", "mengshang004">>

\* Base classes of the exceptions a request or the body handling can raise
\* (requests.exceptions and builtins).  ConnectTimeout derives from both
\* ConnectionError and Timeout.
Bases(e) ==
    CASE e = "ConnectionError" -> {"ConnectionError", "RequestException", "Exception"}
      [] e = "ConnectTimeout" -> {"ConnectTimeout", "ConnectionError", "Timeout", "RequestException", "Exception"}
      [] e = "ReadTimeout" -> {"ReadTimeout", "Timeout", "RequestException", "Exception"}
      [] e = "TooManyRedirects" -> {"TooManyRedirects", "RequestException", "Exception"}
      [] e = "JSONDecodeError" -> {"JSONDecodeError", "ValueError", "Exception"}
      [] e = "AttributeError" -> {"AttributeError", "Exception"}
      [] e = "TypeError" -> {"TypeError", "Exception"}

RequestExceptions == {"ConnectionError", "ConnectTimeout", "ReadTimeout", "TooManyRedirects"}

\* Bodies of a response: not JSON at all; a JSON object of the expected
\* shape; a JSON object whose access_token is null; a JSON object carrying
\* an error message; a JSON value that is not an object (a list).
Bodies == {"not_json", "login_object", "null_token_object", "message_object", "list"}

StatusCodes == {200, 401, 500}

Responses == [status : StatusCodes, body : Bodies]

\* Outcomes of requests.get / requests.post: an exception or a response.
RequestOutcomes ==
    [exc : RequestExceptions, status : {0}, body : {"none"}]
        \cup [exc : {"none"}, status : StatusCodes, body : Bodies]

\* How an outcome is recorded in the call history: the exception class, or
\* the status code.
OutcomeTag(o) == IF o.exc # "none" THEN o.exc ELSE ToString(o.status)

\* response.json(): the exception it raises, "none" if the body parses.
JsonException(body) == IF body = "not_json" THEN "JSONDecodeError" ELSE "none"

\* x.get(...) on the parsed value: only a dict has .get.
GetException(body) == IF body = "list" THEN "AttributeError" ELSE "none"

\* data.get('access_token', '')[:50]: None cannot be sliced; an object
\* without the key yields the default ''.
TokenSliceException(body) == IF body = "null_token_object" THEN "TypeError" ELSE "none"

\* The body of the try block of test_login for a received response: the
\* lines it prints, in order, and the exception that leaves it.
LoginTryBody(k, r) ==
    LET status == <<Line(k, "HTTP status")>> IN
    IF r.status = 200
    THEN CASE JsonException(r.body) # "none" ->
                [lines |-> status, exc |-> JsonException(r.body)]
           [] GetException(r.body) # "none" ->
                [lines |-> status \o <<Line(k, "login ok")>>, exc |-> GetException(r.body)]
           [] TokenSliceException(r.body) # "none" ->
                [lines |-> status \o <<Line(k, "login ok"), Line(k, "user fields")>>,
                 exc |-> TokenSliceException(r.body)]
           [] OTHER ->
                [lines |-> status \o <<Line(k, "login ok"), Line(k, "user fields"), Line(k, "access token")>>,
                 exc |-> "none"]
    ELSE \* the inner try with a bare except: nothing leaves it
         IF JsonException(r.body) # "none" \/ GetException(r.body) # "none"
         THEN [lines |-> status \o <<Line(k, "login failed"), Line(k, "response text")>>, exc |-> "none"]
         ELSE [lines |-> status \o <<Line(k, "login failed"), Line(k, "error message")>>, exc |-> "none"]

LoginExceptClausesNoCatchAll == <<"ConnectionError", "Timeout">>

\* The except clauses of the try in test_login, in order.
LoginExceptClauses == <<"ConnectionError", "Timeout", "Exception">>

\* Line printed by each except clause.
ClauseLine(c) == CASE c = "ConnectionError" -> "cannot connect"
                   [] c = "Timeout" -> "request timeout"
                   [] c = "Exception" -> "request error"

\* First except clause that matches exception e, 0 if none does.
MatchingClause(e) ==
    LET hits == {i \in 1..Len(LoginExceptClauses) : LoginExceptClauses[i] \in Bases(e)}
    IN IF hits = {} THEN 0 ELSE CHOOSE i \in hits : \A j \in hits : i <= j

\* One iteration of the for loop of test_login after requests.post left
\* with outcome o: the lines printed and the exception that escapes.
LoginAttempt(k, o) ==
    LET body == IF o.exc # "none" THEN [lines |-> <<>>, exc |-> o.exc]
                ELSE LoginTryBody(k, [status |-> o.status, body |-> o.body])
        c == IF body.exc = "none" THEN 0 ELSE MatchingClause(body.exc)
    IN CASE body.exc = "none" -> [lines |-> body.lines, escaped |-> "none"]
         [] c # 0 -> [lines |-> Append(body.lines, Line(k, ClauseLine(LoginExceptClauses[c]))),
                      escaped |-> "none"]
         [] OTHER -> [lines |-> body.lines, escaped |-> body.exc]

NextCredentialBreakOnRefusal(i, o) == IF o.exc = "ConnectionError" THEN Len(TestUsers) + 1 ELSE i + 1

\* Index of the for loop of test_login after the body ran for credential i
\* with outcome o: every except clause falls through to the next iteration.
NextCredential(i, o) == i + 1

CheckBackendStatusAnyResponse(o) == IF o.exc = "none" THEN "True" ELSE "False"

\* Return value of check_backend_status for outcome o of the GET /health.
CheckBackendStatus(o) == IF o.exc = "none" /\ o.status = 200 THEN "True" ELSE "False"

\* Line printed by check_backend_status.
HealthLine(o) == CASE o.exc # "none" -> "backend not running"
                   [] o.status = 200 -> "backend running"
                   [] OTHER -> "backend status abnormal"

\* __main__: `if check_backend_status(): test_login() else: print(...)`.
MainGate(h) == IF h = "True" THEN "login_start" ELSE "instructions"

MainStart ==
    /\ script = "login" /\ pc = "main_start"
    /\ out' = Append(out, Line(0, "=== login fix verification ==="))
    /\ calls' = Append(calls, Call("GET /health"))
    /\ inflight' = inflight \cup {"GET /health"}
    /\ pc' = "health_wait"
    /\ UNCHANGED <<script, idx, connBound, linkUp, cursorState, connClosed, healthy, escaped>>

HealthReturn ==
    /\ script = "login" /\ pc = "health_wait"
    /\ \E o \in RequestOutcomes :
        /\ calls' = Returned(calls, OutcomeTag(o))
        /\ inflight' = inflight \ {"GET /health"}
        /\ out' = Append(out, Line(0, HealthLine(o)))
        /\ healthy' = CheckBackendStatus(o)
        /\ pc' = MainGate(healthy')
    /\ UNCHANGED <<script, idx, connBound, linkUp, cursorState, connClosed, escaped>>

Instructions ==
    /\ script = "login" /\ pc = "instructions"
    /\ out' = Append(out, Line(0, "start the backend first"))
    /\ pc' = "done"
    /\ UNCHANGED <<script, calls, inflight, idx, connBound, linkUp, cursorState, connClosed, healthy, escaped>>

LoginStart ==
    /\ script = "login" /\ pc = "login_start"
    /\ out' = Append(out, Line(0, "=== login test ==="))
    /\ pc' = LoopPc(idx, Len(TestUsers), "login_loop")
    /\ UNCHANGED <<script, calls, inflight, idx, connBound, linkUp, cursorState, connClosed, healthy, escaped>>

LoginCall ==
    /\ script = "login" /\ pc = "login_loop"
    /\ out' = Append(out, Line(idx, "test user"))
    /\ calls' = Append(calls, Call(TestUsers[idx]))
    /\ inflight' = inflight \cup {TestUsers[idx]}
    /\ pc' = "login_wait"
    /\ UNCHANGED <<script, idx, connBound, linkUp, cursorState, connClosed, healthy, escaped>>

LoginReturn ==
    /\ script = "login" /\ pc = "login_wait"
    /\ \E o \in RequestOutcomes :
        LET a == LoginAttempt(idx, o) IN
        /\ calls' = Returned(calls, OutcomeTag(o) \o (IF o.exc = "none" THEN " " \o o.body ELSE ""))
        /\ inflight' = inflight \ {TestUsers[idx]}
        /\ out' = out \o a.lines
        /\ escaped' = a.escaped
        /\ idx' = IF a.escaped = "none" THEN NextCredential(idx, o) ELSE idx
        /\ pc' = IF a.escaped = "none" THEN LoopPc(idx', Len(TestUsers), "login_loop")
                 ELSE "crashed"
    /\ UNCHANGED <<script, connBound, linkUp, cursorState, connClosed, healthy>>

LoginNext == MainStart \/ HealthReturn \/ Instructions \/ LoginStart \/ LoginCall \/ LoginReturn

Init ==
    /\ script \in Scripts
    /\ pc = CASE script = "db" -> "db_start"
             [] script = "leaderboard" -> "lb_start"
             [] script = "login" -> "main_start"
    /\ out = <<>>
    /\ calls = <<>>
    /\ inflight = {}
    /\ idx = 1
    /\ connBound = FALSE
    /\ linkUp = FALSE
    /\ cursorState = "none"
    /\ connClosed = FALSE
    /\ healthy = "unset"
    /\ escaped = "none"

Next == DbNext \/ LbNext \/ LoginNext

Spec == Init /\ [][Next]_vars

\* Every call returns, raises or hits its timeout, and the interpreter keeps
\* running: a step that is possible is eventually taken.
FairSpec == Spec /\ WF_vars(Next)

(***************************************************************************)
(* Properties                                                              *)
(***************************************************************************)

Completed(op) == ResultOf(op) \notin {"never", "pending"}

IsPrefix(a, b) == Len(a) <= Len(b) /\ a = SubSeq(b, 1, Len(a))

Verdicts == {"login ok", "login failed", "cannot connect", "request timeout", "request error"}

VerdictsFor(k) == {i \in Lines(k) : out[i].line \in Verdicts}

DbStatements == <<"connect", "DESCRIBE", "createdAt", "created_at">>

\* C1: test_database_query never propagates an exception, whatever connect
\* and the three execute calls do: no exception leaves it, and it ends by
\* returning normally.
C1_NeverPropagates ==
    script = "db" => (escaped = "none" /\ pc # "crashed")

\* C2: whenever a connection was established and a cursor created, both the
\* cursor and the connection have been closed when test_database_query ends.
C2_ClosedAtEnd ==
    (script = "db" /\ Ended /\ cursorState # "none")
        => (cursorState = "closed" /\ connClosed)

\* C3: no exception escapes check_backend_status or test_login; every
\* outcome of the health request and of each login request is reported by a
\* printed line and the function returns normally.
C3_NoEscape ==
    script = "login" =>
        /\ escaped = "none" /\ pc # "crashed"
        /\ Completed("GET /health") =>
              \E l \in {"backend running", "backend status abnormal", "backend not running"} :
                  Printed(l)
        /\ \A k \in 1..Len(TestUsers) :
              Completed(TestUsers[k]) => (VerdictsFor(k) # {} /\ idx > k)

C3_Witness ==
    /\ script = "login" /\ pc = "done"
    /\ ResultOf("root") = "200 list"
    /\ ResultOf("mengshang004") = "200 null_token_object"

\* C4: every script is strictly sequential: at most one outbound operation
\* is in flight, and in the leaderboard script the only child process alive
\* is the one of the endpoint being probed.
C4_Sequential ==
    /\ Cardinality(inflight) <= 1
    /\ script = "leaderboard" => inflight \subseteq (IF pc = "lb_run" THEN {idx} ELSE {})

C4_Witness ==
    /\ script = "leaderboard"
    /\ inflight = {2}
    /\ ResultOf(Endpoints[1]) = "timeout"

\* C5: the leaderboard script probes the four endpoints exactly once each, in
\* list order; a failed probe neither aborts the loop, nor skips a later
\* endpoint, nor repeats one.
C5_EachOnceInOrder ==
    script = "leaderboard" =>
        /\ IsPrefix(Ops, Endpoints)
        /\ Ended => Ops = Endpoints

C5_Witness ==
    /\ script = "leaderboard" /\ pc = "done"
    /\ ResultOf(Endpoints[1]) = "missing"
    /\ ResultOf(Endpoints[2]) = "timeout"
    /\ ResultOf(Endpoints[3]) = "stderr"
    /\ ResultOf(Endpoints[4]) = "http_error"

\* C6: when test_login runs it sends exactly one login request per
\* credential, root first and then mengshang004, whatever the outcome of the
\* first; no credential is submitted twice.
C6_OneRequestPerCredential ==
    script = "login" =>
        /\ IsPrefix(Ops, <<"GET /health">> \o TestUsers)
        /\ (Ended /\ Printed("=== login test ===")) => Ops = <<"GET /health">> \o TestUsers

C6_Witness ==
    /\ script = "login" /\ pc = "done"
    /\ ResultOf("root") = "ConnectionError"
    /\ Completed("mengshang004")

\* Number of external calls a run of each script may make.
CallBounds ==
    /\ \A i \in 1..Len(calls) : TimesIssued(calls[i].op) = 1
    /\ script = "db" => IsPrefix(Ops, DbStatements)
    /\ script = "leaderboard" => /\ Len(calls) <= Len(Endpoints)
                                 /\ Ended => Len(calls) = Len(Endpoints)
    /\ script = "login" => Len(calls) <= 1 + Len(TestUsers)

\* C7: every script terminates: given that every external call returns,
\* raises or times out, every run reaches its end, after at most 1 connect
\* and 3 statements, exactly 4 child process runs, or at most 1 health
\* request and 2 login requests, and no call is repeated.
C7_Terminates == <>Ended /\ []CallBounds

C7_Witness ==
    /\ Ended
    /\ script = "leaderboard"
    /\ Len(calls) = 4
    /\ ResultOf(Endpoints[4]) = "timeout"

\* C8: login requests are gated by the health check: one is sent only after
\* GET /health completed with status 200; check_backend_status returns True
\* exactly when the status is 200; otherwise no login request is sent and
\* the start-up instructions are printed.
C8_GatedByHealth ==
    script = "login" =>
        /\ (\E k \in 1..Len(TestUsers) : Issued(TestUsers[k])) => ResultOf("GET /health") = "200"
        /\ healthy # "unset" => (healthy = "True" <=> ResultOf("GET /health") = "200")
        /\ healthy = "unset" <=> ~Completed("GET /health")
        /\ (Ended /\ healthy = "False") =>
              /\ Ops = <<"GET /health">>
              /\ Printed("start the backend first")
        /\ Printed("start the backend first") => healthy = "False"

C8_Witness ==
    /\ script = "login" /\ pc = "done"
    /\ ResultOf("GET /health") = "500"
    /\ Printed("start the backend first")

\* C9: for each credential exactly one verdict line is printed (success,
\* failure, or one of the error lines); success only for status 200 with a
\* body that parsed as JSON, failure only for a status other than 200.
C9_OneVerdict ==
    script = "login" =>
        \A k \in 1..Len(TestUsers) :
            Completed(TestUsers[k]) => Cardinality(VerdictsFor(k)) = 1

\* C10: the statements are issued in the order DESCRIBE, createdAt query,
\* created_at query, each at most once; the created_at query is issued
\* exactly when the connection is connected and DESCRIBE succeeded, whatever
\* the createdAt query did; for it an error is reported as expected and a
\* success as unexpected.
C10_StatementOrder ==
    script = "db" =>
        /\ IsPrefix(Ops, DbStatements)
        /\ Ended => (Issued("created_at")
                        <=> (ResultOf("connect") = "connected" /\ ResultOf("DESCRIBE") = "ok"))
        /\ (Completed("DESCRIBE") /\ ResultOf("DESCRIBE") # "ok") => ~Issued("createdAt")
        /\ Printed("should not succeed") <=> ResultOf("created_at") = "ok"
        /\ Printed("expected error") <=> (Completed("created_at") /\ ResultOf("created_at") # "ok")

C10_Witness ==
    /\ script = "db" /\ pc = "done"
    /\ ResultOf("createdAt") = "ProgrammingError"
    /\ ResultOf("created_at") = "ProgrammingError"
    /\ Printed("expected error")

====
